---- MODULE Spec2Model ----
(***************************************************************************)
(* Model of cybootloaderhost.py: the packet codec of the Cypress HID       *)
(* bootloader protocol (class Bootloader), the .cyacd firmware parser      *)
(* (class Cyacd), the row-splitting flash loop and the main() run.         *)
(*                                                                         *)
(* Three specifications share the variables:                               *)
(*   Spec         one run of main()                                        *)
(*   SpecSession  a client calling the Bootloader methods in any order     *)
(*   SpecCodec    _make_packet followed by _parse_response on its output   *)
(***************************************************************************)
EXTENDS Integers, Sequences, FiniteSets, TLC

VARIABLES
    pc,                  \* position of the caller (main() or the API client)
    op,                  \* the Bootloader method called last
    waiting,             \* TRUE while send_command blocks in _device.read(64)
    ret,                 \* return value of the last completed method
    exc,                 \* the exception that propagated, "none" if none
    response,            \* the bytes the last _device.read(64) returned
    io,                  \* transport log: every _device.write and _device.read
    jtag_id,             \* Bootloader.jtag_id
    device_revision,     \* Bootloader.device_revision
    bootloader_revision, \* Bootloader.bootloader_revision
    file,                \* the text lines of the firmware file
    silicon_id,          \* Cyacd.silicon_id
    silicon_revision,    \* Cyacd.silicon_revision
    checksum_type,       \* Cyacd.checksum_type
    firmware,            \* Cyacd.firmware
    row_i,               \* flash: index of the row of the for loop
    chunk_i,             \* flash: number of commands already sent for that row
    calls,               \* number of method calls the API client has made
    codec_stage,         \* SpecCodec: "idle", "input", "encoded", "decoded"
    codec_cmd,           \* SpecCodec: command byte given to _make_packet
    codec_data,          \* SpecCodec: payload given to _make_packet
    codec_packet,        \* SpecCodec: the frame _make_packet built
    codec_resp           \* SpecCodec: what _parse_response made of that frame

identity == <<jtag_id, device_revision, bootloader_revision>>

image == <<file, silicon_id, silicon_revision, checksum_type, firmware>>

codec == <<codec_stage, codec_cmd, codec_data, codec_packet, codec_resp>>

vars == <<pc, op, waiting, ret, exc, response, io, identity, image,
          row_i, chunk_i, calls, codec>>

-----------------------------------------------------------------------------
(* Bounds of the model.                                                    *)

\* Rows per firmware file.
MaxRows == 2

\* Row data lengths below MAX_DATA_LENGTH that are tried: 0..MaxSmall.
MaxSmall == 1

\* Row data lengths from MAX_DATA_LENGTH on: k*MAX_DATA_LENGTH and
\* k*MAX_DATA_LENGTH + 4 for k in 1..MaxFull.
MaxFull == 2

\* Method calls of the API client in SpecSession.
MaxCalls == 3

-----------------------------------------------------------------------------
(* Python values.                                                          *)

\* Python's None, and a value that is not None.
None == <<>>

Some(v) == <<v>>

Min(a, b) == IF a < b THEN a ELSE b

\* s[a:b] for 0 <= a <= b: the slice is clamped to the sequence.
Slice(s, a, b) ==
    IF a >= Min(b, Len(s)) THEN <<>> ELSE SubSeq(s, a + 1, Min(b, Len(s)))

\* s[::-1]
Reverse(s) == [i \in 1..Len(s) |-> s[Len(s) + 1 - i]]

\* The sum the loops of the two _checksum methods accumulate ("for byte in
\* data: checksum += byte"), added up by halves to keep the recursion flat.
RECURSIVE SumBytes(_)
SumBytes(s) ==
    IF Len(s) = 0 THEN 0
    ELSE IF Len(s) = 1 THEN s[1]
    ELSE SumBytes(SubSeq(s, 1, Len(s) \div 2))
         + SumBytes(SubSeq(s, Len(s) \div 2 + 1, Len(s)))

\* a | b and a & b on non-negative integers, bit by bit.
RECURSIVE BitOr(_, _)
BitOr(a, b) ==
    IF a = 0 THEN b
    ELSE IF b = 0 THEN a
    ELSE (IF a % 2 = 1 \/ b % 2 = 1 THEN 1 ELSE 0)
         + 2 * BitOr(a \div 2, b \div 2)

RECURSIVE BitAnd(_, _)
BitAnd(a, b) ==
    IF a = 0 \/ b = 0 THEN 0
    ELSE (IF a % 2 = 1 /\ b % 2 = 1 THEN 1 ELSE 0)
         + 2 * BitAnd(a \div 2, b \div 2)

\* a << n and a >> n
RECURSIVE Shl(_, _)
Shl(a, n) == IF n = 0 THEN a ELSE Shl(2 * a, n - 1)

RECURSIVE Shr(_, _)
Shr(a, n) == IF n = 0 THEN a ELSE Shr(a \div 2, n - 1)

-----------------------------------------------------------------------------
(* class Bootloader: constants and the packet codec.                       *)

\* The HID report size and the framing bytes of a packet: "64 - 7".
PACKET_SIZE == 64

FRAME_OVERHEAD == 7

\* A chunk size that fills the payload of a frame, with no room kept for
\* the argument bytes of program_row.
MAX_DATA_LENGTH_NoReserve == PACKET_SIZE - FRAME_OVERHEAD

MAX_DATA_LENGTH == PACKET_SIZE - FRAME_OVERHEAD - 9

SOP == 1

EOP == 23

CMD_ERASE_ROW == 52

CMD_SEND_DATA == 55

CMD_ENTER == 56

CMD_PROGRAM_ROW == 57

CMD_EXIT == 59

STATUSES ==
    [c \in {0, 3, 4, 5, 8, 9, 10, 12, 13, 14, 15} |->
        CASE c = 0  -> "CYRET_SUCCESS"
          [] c = 3  -> "BOOTLOADER_ERR_LENGTH"
          [] c = 4  -> "BOOTLOADER_ERR_DATA"
          [] c = 5  -> "BOOTLOADER_ERR_CMD"
          [] c = 8  -> "BOOTLOADER_ERR_CHECKSUM"
          [] c = 9  -> "BOOTLOADER_ERR_ARRAY"
          [] c = 10 -> "BOOTLOADER_ERR_ROW"
          [] c = 12 -> "BOOTLOADER_ERR_APP"
          [] c = 13 -> "BOOTLOADER_ERR_ACTIVE"
          [] c = 14 -> "BOOTLOADER_ERR_CALLBACK"
          [] c = 15 -> "BOOTLOADER_ERR_UNK"]

\* The one's complement alone, the + 1 of line 58 left out.
Bootloader_checksum_OnesComplement(data) == (0 - SumBytes(data) - 1) % 65536

\* Bootloader._checksum: (~checksum + 1) & 0xffff. On Python's unbounded
\* integers ~c + 1 is -c, and & 0xffff of it is its residue modulo 2^16.
Bootloader_checksum(data) == (0 - SumBytes(data)) % 65536

\* The assertion of _make_packet on the payload length.
MakePacketAsserts(data) == Len(data) <= PACKET_SIZE - FRAME_OVERHEAD

\* Bootloader._make_packet, for a payload that passes its assertion.
_make_packet(command, data) ==
    LET head == <<SOP, command, BitAnd(Len(data), 255), Shr(Len(data), 8)>> \o data
        checksum == Bootloader_checksum(head)
    IN  head \o <<BitAnd(checksum, 255), Shr(checksum, 8), EOP>>

\* The length field of a frame: (response_data[3] << 8) | response_data[2].
DataLength(r) == BitOr(Shl(r[4], 8), r[3])

\* The exception _parse_response raises on response_data, in the order of
\* its statements, or "none".
ParseResponseExc(r) ==
    IF Len(r) < 1 THEN "IndexError"
    ELSE IF r[1] # SOP THEN "AssertionError"
    ELSE IF Len(r) < 2 THEN "IndexError"
    ELSE IF r[2] \notin DOMAIN STATUSES THEN "KeyError"
    ELSE IF Len(r) < 4 THEN "IndexError"
    ELSE IF Len(r) < 4 + DataLength(r) + 2 THEN "IndexError"
    ELSE IF Len(r) < 4 + DataLength(r) + 3 THEN "IndexError"
    ELSE IF r[4 + DataLength(r) + 3] # EOP THEN "AssertionError"
    ELSE "none"

\* Bootloader._parse_response: the response dictionary, with the exception
\* that ends the call instead.
_parse_response(r) ==
    IF ParseResponseExc(r) # "none"
    THEN [exc |-> ParseResponseExc(r), status |-> "BOOTLOADER_ERR_UNK",
          data |-> <<>>, checksum_ok |-> FALSE]
    ELSE LET data_length == DataLength(r)
             checksum_received ==
                 BitOr(r[4 + data_length + 1], Shl(r[4 + data_length + 2], 8))
             checksum_calculated ==
                 Bootloader_checksum(Slice(r, 0, 4 + data_length))
         IN  [exc |-> "none",
              status |-> STATUSES[r[2]],
              data |-> IF data_length > 0
                       THEN Slice(r, 4, 4 + data_length) ELSE <<>>,
              checksum_ok |-> (checksum_calculated = checksum_received)]


-----------------------------------------------------------------------------
(* class Bootloader: the decisions of the commands.                        *)

\* A variant of EnterOk: "or" in place of "and".
EnterOk_Or(resp) == resp.checksum_ok \/ resp.status = "CYRET_SUCCESS"

\* enter_bootloader's test of the response (line 119).
EnterOk(resp) == resp.checksum_ok /\ resp.status = "CYRET_SUCCESS"

\* A variant of ProgramRowOk: the status alone decides.
ProgramRowOk_StatusOnly(resp) == resp.status = "CYRET_SUCCESS"

\* program_row's test of the response (line 133).
ProgramRowOk(resp) == resp.checksum_ok /\ resp.status = "CYRET_SUCCESS"

\* erase_row's test of the response (line 141).
EraseRowOk(resp) == resp.checksum_ok /\ resp.status = "CYRET_SUCCESS"

\* send_data's test of the response (line 148).
SendDataOk(resp) == resp.checksum_ok /\ resp.status = "CYRET_SUCCESS"

\* The same assignments with the slice of line 126 taken as it stands,
\* the [::-1] left out.
EnterAssign_NoReverse(id, data) ==
    LET n == Len(data)
        j1 == data[1]
        j2 == BitOr(j1, Shl(data[2], 8))
        j3 == BitOr(j2, Shl(data[3], 16))
        j4 == BitOr(j3, Shl(data[4], 24))
    IN  IF n = 0 THEN [exc |-> "IndexError", id |-> id]
        ELSE IF n = 1 THEN [exc |-> "IndexError", id |-> <<Some(j1), id[2], id[3]>>]
        ELSE IF n = 2 THEN [exc |-> "IndexError", id |-> <<Some(j2), id[2], id[3]>>]
        ELSE IF n = 3 THEN [exc |-> "IndexError", id |-> <<Some(j3), id[2], id[3]>>]
        ELSE IF n = 4 THEN [exc |-> "IndexError", id |-> <<Some(j4), id[2], id[3]>>]
        ELSE [exc |-> "none",
              id |-> <<Some(j4), Some(data[5]), Some(Slice(data, 5, 8))>>]

\* The assignments of enter_bootloader's success branch, one after the
\* other: an index past the end of the payload raises IndexError and leaves
\* the assignments before it done. id is the identity before the call.
EnterAssign(id, data) ==
    LET n == Len(data)
        j1 == data[1]
        j2 == BitOr(j1, Shl(data[2], 8))
        j3 == BitOr(j2, Shl(data[3], 16))
        j4 == BitOr(j3, Shl(data[4], 24))
    IN  IF n = 0 THEN [exc |-> "IndexError", id |-> id]
        ELSE IF n = 1 THEN [exc |-> "IndexError", id |-> <<Some(j1), id[2], id[3]>>]
        ELSE IF n = 2 THEN [exc |-> "IndexError", id |-> <<Some(j2), id[2], id[3]>>]
        ELSE IF n = 3 THEN [exc |-> "IndexError", id |-> <<Some(j3), id[2], id[3]>>]
        ELSE IF n = 4 THEN [exc |-> "IndexError", id |-> <<Some(j4), id[2], id[3]>>]
        ELSE [exc |-> "none",
              id |-> <<Some(j4), Some(data[5]), Some(Reverse(Slice(data, 5, 8)))>>]

\* [array_id, row_number & 0xff, row_number >> 8]
RowArguments(array_id, row_number) ==
    <<array_id, BitAnd(row_number, 255), Shr(row_number, 8)>>

\* What a method makes of the decoded response resp: its return value, the
\* identity fields after it and the exception it raises.
Outcome(method, resp, id) ==
    IF resp.exc # "none" THEN [exc |-> resp.exc, ret |-> "None", id |-> id]
    ELSE IF method = "enter_bootloader"
    THEN IF EnterOk(resp)
         THEN LET a == EnterAssign(id, resp.data)
              IN  [exc |-> a.exc,
                   ret |-> IF a.exc = "none" THEN "True" ELSE "None",
                   id |-> a.id]
         ELSE [exc |-> "none", ret |-> "False", id |-> id]
    ELSE IF method = "program_row"
    THEN [exc |-> "none", id |-> id,
          ret |-> IF ProgramRowOk(resp) THEN "True" ELSE "False"]
    ELSE IF method = "erase_row"
    THEN [exc |-> "none", id |-> id,
          ret |-> IF EraseRowOk(resp) THEN "True" ELSE "False"]
    ELSE [exc |-> "none", id |-> id,
          ret |-> IF SendDataOk(resp) THEN "True" ELSE "False"]

-----------------------------------------------------------------------------
(* The device: what _device.read(64) may return.                           *)

\* A well-formed frame of the device with a status byte and a payload.
DeviceFrame(status, payload) ==
    LET head == <<SOP, status, Len(payload) % 256, Len(payload) \div 256>> \o payload
        sum == (65536 - (SumBytes(head) % 65536)) % 65536
    IN  head \o <<sum % 256, sum \div 256, EOP>>

\* The frame with the byte at index i (from 1) changed.
Corrupt(frame, i) == [frame EXCEPT ![i] = (@ + 1) % 256]

\* The frame padded with zero bytes to the report size.
Padded(frame) == frame \o [i \in 1..(PACKET_SIZE - Len(frame)) |-> 0]

\* Identity payloads of two devices.
PayloadA == <<1, 2, 3, 4, 5, 6, 7, 8>>

PayloadB == <<4, 3, 2, 1, 6, 9, 10, 11>>

Responses ==
    { DeviceFrame(0, PayloadA),                \* success, identity A
      Padded(DeviceFrame(0, PayloadA)),        \* the same in a full report
      DeviceFrame(0, PayloadB),                \* success, identity B
      DeviceFrame(0, PayloadA \o <<9, 10>>),   \* success, identity A and more
      DeviceFrame(0, <<1, 2, 3>>),             \* success, payload too short
      DeviceFrame(0, <<>>),                    \* success, no payload
      Corrupt(DeviceFrame(0, PayloadA), 13),   \* success, wrong checksum
      DeviceFrame(4, <<>>),                    \* BOOTLOADER_ERR_DATA
      Corrupt(DeviceFrame(4, <<>>), 5),        \* error status, wrong checksum
      DeviceFrame(1, <<>>),                    \* a status not in STATUSES
      Corrupt(DeviceFrame(0, <<>>), 1),        \* wrong start byte
      Corrupt(DeviceFrame(0, <<>>), 7),        \* wrong end byte
      <<SOP, 0>> }                             \* cut short

-----------------------------------------------------------------------------
(* class Cyacd: the firmware file parser.                                  *)

HexLower == <<"0", "1", "2", "3", "4", "5", "6", "7", "8", "9",
              "a", "b", "c", "d", "e", "f">>

HexUpper == <<"0", "1", "2", "3", "4", "5", "6", "7", "8", "9",
              "A", "B", "C", "D", "E", "F">>

\* The value of each hexadecimal digit, in either case.
HexDigits ==
    [c \in {HexLower[i] : i \in 1..16} \cup {HexUpper[i] : i \in 1..16} |->
        IF \E i \in 1..16 : HexLower[i] = c
        THEN (CHOOSE i \in 1..16 : HexLower[i] = c) - 1
        ELSE (CHOOSE i \in 1..16 : HexUpper[i] = c) - 1]

\* The value of a hexadecimal digit, -1 for any other character.
HexVal(c) == IF c \in DOMAIN HexDigits THEN HexDigits[c] ELSE -1

\* str.rstrip('\r\n'): the trailing carriage returns and line feeds removed.
RECURSIVE RStrip(_)
RStrip(s) ==
    IF s # <<>> /\ s[Len(s)] \in {"\r", "\n"}
    THEN RStrip(SubSeq(s, 1, Len(s) - 1))
    ELSE s

\* binascii.a2b_hex raises binascii.Error on an odd number of characters
\* and on a character that is no hexadecimal digit.
A2bHexRaises(s) ==
    Len(s) % 2 = 1 \/ \E i \in 1..Len(s) : HexVal(s[i]) < 0

\* binascii.a2b_hex on text that it accepts.
a2b_hex(s) ==
    [i \in 1..(Len(s) \div 2) |-> 16 * HexVal(s[2 * i - 1]) + HexVal(s[2 * i])]

\* Cyacd._checksum: (~checksum + 1) & 0xff.
Cyacd_checksum(data) == (0 - SumBytes(data)) % 256

\* One pass of the for loop of Cyacd.parse over a text line: the exception
\* it raises, or the row (array_id, row_number, data) it appends.
ParseLine(text) ==
    LET hex == RStrip(Slice(text, 1, Len(text)))
    IN  IF A2bHexRaises(hex) THEN [exc |-> "binascii.Error", row |-> <<>>]
        ELSE LET line == a2b_hex(hex)
             IN  IF Len(line) < 5 THEN [exc |-> "IndexError", row |-> <<>>]
                 ELSE LET array_id == line[1]
                          row_number == BitOr(Shl(line[2], 8), line[3])
                          data_length == BitOr(Shl(line[4], 8), line[5])
                          data == Slice(line, 5, 5 + data_length)
                      IN  IF Len(line) < 5 + data_length + 1
                          THEN [exc |-> "IndexError", row |-> <<>>]
                          ELSE IF line[5 + data_length + 1]
                                  # Cyacd_checksum(Slice(line, 0, Len(line) - 1))
                          THEN [exc |-> "AssertionError", row |-> <<>>]
                          ELSE [exc |-> "none",
                                row |-> <<array_id, row_number, data>>]

\* Cyacd.parse on the lines of the file: the exception that ends it ("none"
\* if none) and the fields of the object after it. The fields of the header
\* are assigned before the rows are read; firmware is assigned last.
Cyacd_parse(lines) ==
    IF lines = <<>>
    THEN [exc |-> "IndexError", silicon_id |-> None, silicon_revision |-> None,
          checksum_type |-> None, firmware |-> None]
    ELSE
    LET header_line == RStrip(lines[1])
        header == a2b_hex(header_line)
        rows == Tail(lines)
        id == BitOr(BitOr(BitOr(header[4], Shl(header[3], 8)),
                          Shl(header[2], 16)), Shl(header[1], 24))
        bad == {i \in 1..Len(rows) : ParseLine(rows[i]).exc # "none"}
        first == CHOOSE i \in bad : \A j \in bad : i <= j
    IN  IF A2bHexRaises(header_line)
        THEN [exc |-> "binascii.Error", silicon_id |-> None,
              silicon_revision |-> None, checksum_type |-> None, firmware |-> None]
        ELSE IF Len(header) < 4
        THEN [exc |-> "IndexError", silicon_id |-> None,
              silicon_revision |-> None, checksum_type |-> None, firmware |-> None]
        ELSE IF Len(header) < 5
        THEN [exc |-> "IndexError", silicon_id |-> Some(id),
              silicon_revision |-> None, checksum_type |-> None, firmware |-> None]
        ELSE IF Len(header) < 6
        THEN [exc |-> "IndexError", silicon_id |-> Some(id),
              silicon_revision |-> Some(header[5]), checksum_type |-> None,
              firmware |-> None]
        ELSE IF bad # {}
        THEN [exc |-> ParseLine(rows[first]).exc, silicon_id |-> Some(id),
              silicon_revision |-> Some(header[5]),
              checksum_type |-> Some(header[6]), firmware |-> None]
        ELSE [exc |-> "none", silicon_id |-> Some(id),
              silicon_revision |-> Some(header[5]),
              checksum_type |-> Some(header[6]),
              firmware |-> Some([i \in 1..Len(rows) |-> ParseLine(rows[i]).row])]

-----------------------------------------------------------------------------
(* The firmware files given to main().                                     *)

HexByte(b) == <<HexUpper[(b \div 16) + 1], HexUpper[(b % 16) + 1]>>

\* The hex text of a byte sequence: two characters per byte.
HexText(bytes) ==
    [i \in 1..(2 * Len(bytes)) |-> HexByte(bytes[(i + 1) \div 2])[2 - (i % 2)]]

\* The bytes of a row record without its checksum, and with it.
RowHead(array_id, row_number, data) ==
    <<array_id, row_number \div 256, row_number % 256,
      Len(data) \div 256, Len(data) % 256>> \o data

RowBytes(array_id, row_number, data) ==
    RowHead(array_id, row_number, data)
        \o <<(256 - (SumBytes(RowHead(array_id, row_number, data)) % 256)) % 256>>

\* A text line of the file: the record marker, the hex text, the newline.
TextLine(bytes) == <<":">> \o HexText(bytes) \o <<"\n">>

HeaderLine(bytes) == HexText(bytes) \o <<"\n">>

\* The data of the k-th row of a file, n bytes that differ by position.
RowData(k, n) == [i \in 1..n |-> (16 * k + 7 * i) % 256]

\* The k-th row of a file: array k % 2, row number 255 + k.
GoodRow(k, n) == RowBytes(k % 2, 255 + k, RowData(k, n))

\* Headers: the silicon id and revision of device A, a different id, a
\* different revision.
HeaderA == <<4, 3, 2, 1, 5, 0>>

HeaderOtherId == <<1, 2, 3, 4, 5, 0>>

HeaderOtherRev == <<4, 3, 2, 1, 6, 0>>

RowLengths ==
    (0..MaxSmall) \cup
    {k * MAX_DATA_LENGTH + d : k \in 1..MaxFull, d \in {0, 4}}

\* The row lengths of a file: every list of up to two lengths, and for more
\* rows every pair of lengths in alternation.
LengthLists ==
    {[k \in 1..n |-> IF k % 2 = 1 THEN a ELSE b] :
        n \in 0..MaxRows, a \in RowLengths, b \in RowLengths}

GoodFile(header, lens) ==
    <<HeaderLine(header)>> \o [k \in 1..Len(lens) |-> TextLine(GoodRow(k, lens[k]))]

\* A good first row followed by a row whose checksum byte is wrong.
BadChecksumFile ==
    <<HeaderLine(HeaderA), TextLine(GoodRow(1, 1)),
      TextLine(Corrupt(GoodRow(2, 4), Len(GoodRow(2, 4))))>>

\* A row that declares one data byte more than it holds.
LongLengthFile ==
    <<HeaderLine(HeaderA), TextLine(Corrupt(GoodRow(1, 2), 5))>>

\* A row that declares one data byte (01) and holds two more bytes: 7F, where
\* the declared length puts the checksum, and a last byte 00.
ShortLengthFile ==
    <<HeaderLine(HeaderA), TextLine(<<0, 0, 0, 0, 1, 1, 127, 0>>)>>

\* A row with a character that is no hexadecimal digit.
NotHexFile ==
    <<HeaderLine(HeaderA), <<":", "0", "G", "\n">>>>

Files ==
    {GoodFile(HeaderA, lens) : lens \in LengthLists}
    \cup {GoodFile(HeaderOtherId, <<1>>), GoodFile(HeaderOtherRev, <<1>>)}
    \cup {BadChecksumFile, LongLengthFile, ShortLengthFile, NotHexFile}

-----------------------------------------------------------------------------
(* Bootloader.flash: the commands of one row.                              *)

FullPackets(data) == Len(data) \div MAX_DATA_LENGTH

PartialPacketLength(data) == Len(data) % MAX_DATA_LENGTH

\* data[MAX_DATA_LENGTH*i : MAX_DATA_LENGTH*i + MAX_DATA_LENGTH]
FullChunk(data, i) ==
    Slice(data, MAX_DATA_LENGTH * i, MAX_DATA_LENGTH * i + MAX_DATA_LENGTH)

\* A variant of SendDataChunks: the even branch loops over range(0,
\* full_packets) like the other one.
SendDataChunks_SameRange(data) ==
    IF Len(data) >= MAX_DATA_LENGTH
    THEN [i \in 1..FullPackets(data) |-> FullChunk(data, i - 1)]
    ELSE <<>>

\* The chunks flash passes to send_data for a row, in order.
SendDataChunks(data) ==
    IF Len(data) >= MAX_DATA_LENGTH
    THEN IF PartialPacketLength(data) > 0
         THEN [i \in 1..FullPackets(data) |-> FullChunk(data, i - 1)]
         ELSE [i \in 1..(FullPackets(data) - 1) |-> FullChunk(data, i - 1)]
    ELSE <<>>

\* A variant of ProgramRowChunk: the slice of line 171 taken in both
\* branches, which is empty when the length is a multiple of MAX_DATA_LENGTH.
ProgramRowChunk_PartialSlice(data) ==
    IF Len(data) >= MAX_DATA_LENGTH
    THEN Slice(data, MAX_DATA_LENGTH * FullPackets(data),
               MAX_DATA_LENGTH * FullPackets(data) + PartialPacketLength(data))
    ELSE data

\* The chunk flash passes to program_row for a row.
ProgramRowChunk(data) ==
    IF Len(data) >= MAX_DATA_LENGTH
    THEN IF PartialPacketLength(data) > 0
         THEN Slice(data, MAX_DATA_LENGTH * FullPackets(data),
                    MAX_DATA_LENGTH * FullPackets(data) + PartialPacketLength(data))
         ELSE FullChunk(data, FullPackets(data) - 1)
    ELSE data

\* A variant of RowCommands: a row whose length is a multiple of
\* MAX_DATA_LENGTH goes out in send_data commands alone, with no program_row.
RowCommands_NoFinalOnEven(row) ==
    IF Len(row[3]) >= MAX_DATA_LENGTH /\ PartialPacketLength(row[3]) = 0
    THEN [i \in 1..FullPackets(row[3]) |->
            [method |-> "send_data", command |-> CMD_SEND_DATA,
             data |-> FullChunk(row[3], i - 1)]]
    ELSE [i \in 1..FullPackets(row[3]) |->
            [method |-> "send_data", command |-> CMD_SEND_DATA,
             data |-> FullChunk(row[3], i - 1)]]
         \o <<[method |-> "program_row", command |-> CMD_PROGRAM_ROW,
               data |-> RowArguments(row[1], row[2]) \o ProgramRowChunk(row[3])]>>

\* The commands flash sends for a row (array_id, row_number, data), in
\* order: the method, the command byte and the payload of each.
RowCommands(row) ==
    [i \in 1..Len(SendDataChunks(row[3])) |->
        [method |-> "send_data", command |-> CMD_SEND_DATA,
         data |-> SendDataChunks(row[3])[i]]]
    \o <<[method |-> "program_row", command |-> CMD_PROGRAM_ROW,
          data |-> RowArguments(row[1], row[2]) \o ProgramRowChunk(row[3])]>>

\* A variant of Compatible: the silicon revision is not compared.
Compatible_IdOnly == jtag_id = silicon_id

\* A main() that flashes without the test of line 242.
Compatible_Unchecked == TRUE

\* main()'s test before flashing (line 242).
Compatible == jtag_id = silicon_id /\ device_revision = silicon_revision

-----------------------------------------------------------------------------
(* Steps shared by the specifications.                                     *)

\* A variant of Send in which exit_bootloader waits for a response like the
\* other methods, as it would if it went through send_command.
Send_ExitReads(method, command, data, tag) ==
    /\ op' = method
    /\ response' = <<>>
    /\ ret' = "None"
    /\ IF MakePacketAsserts(data)
       THEN /\ io' = Append(io, [kind |-> "write", row |-> tag,
                                 frame |-> _make_packet(command, data)])
            /\ exc' = "none"
            /\ waiting' = TRUE
       ELSE /\ io' = io
            /\ exc' = "AssertionError"
            /\ waiting' = FALSE

\* A method builds its packet and writes it: send_command up to the read,
\* or all of exit_bootloader. tag is the flash row the command belongs to
\* (0 outside flash). _make_packet's assertion raises before any write.
Send(method, command, data, tag) ==
    /\ op' = method
    /\ response' = <<>>
    /\ ret' = "None"
    /\ IF MakePacketAsserts(data)
       THEN /\ io' = Append(io, [kind |-> "write", row |-> tag,
                                 frame |-> _make_packet(command, data)])
            /\ exc' = "none"
            /\ waiting' = (method # "exit_bootloader")
       ELSE /\ io' = io
            /\ exc' = "AssertionError"
            /\ waiting' = FALSE

\* Where the caller continues after Send: an exception ends main().
AfterSend(data, next) ==
    IF MakePacketAsserts(data) \/ pc = "client" THEN next ELSE "raised"

\* send_command from its read on: _device.read(64) returns, the response is
\* parsed and the method that called send_command acts on it and returns.
Receive ==
    /\ waiting
    /\ \E r \in Responses :
         LET o == Outcome(op, _parse_response(r), identity)
         IN  /\ response' = r
             /\ io' = Append(io, [kind |-> "read", row |-> io[Len(io)].row,
                                  frame |-> <<>>])
             /\ waiting' = FALSE
             /\ exc' = o.exc
             /\ ret' = o.ret
             /\ jtag_id' = o.id[1]
             /\ device_revision' = o.id[2]
             /\ bootloader_revision' = o.id[3]
             /\ pc' = IF o.exc # "none" /\ pc # "client" THEN "raised" ELSE pc
    /\ UNCHANGED <<op, image, row_i, chunk_i, calls, codec>>

NoCodec ==
    /\ codec_stage = "idle"
    /\ codec_cmd = 0
    /\ codec_data = <<>>
    /\ codec_packet = <<>>
    /\ codec_resp = None

NoCall ==
    /\ op = "none"
    /\ waiting = FALSE
    /\ ret = "None"
    /\ exc = "none"
    /\ response = <<>>
    /\ io = <<>>
    /\ row_i = 0
    /\ chunk_i = 0
    /\ calls = 0

\* Bootloader.__init__ and Cyacd.__init__.
Constructed ==
    /\ jtag_id = None
    /\ device_revision = None
    /\ bootloader_revision = None
    /\ silicon_id = None
    /\ silicon_revision = None
    /\ checksum_type = None
    /\ firmware = None

-----------------------------------------------------------------------------
(* Spec: one run of main().                                                *)

Init ==
    /\ pc = "start"
    /\ file \in Files
    /\ NoCall
    /\ Constructed
    /\ NoCodec

\* hid.enumerate() lists the device: found = True.
MainFound ==
    /\ pc = "start"
    /\ pc' = "enter"
    /\ UNCHANGED <<op, waiting, ret, exc, response, io, identity, image,
                   row_i, chunk_i, calls, codec>>

\* hid.enumerate() does not list it: "Device not found!", sys.exit(1).
MainNotFound ==
    /\ pc = "start"
    /\ pc' = "exit1"
    /\ UNCHANGED <<op, waiting, ret, exc, response, io, identity, image,
                   row_i, chunk_i, calls, codec>>

\* bootloader.enter_bootloader() up to its read.
MainEnter ==
    /\ pc = "enter"
    /\ ~waiting
    /\ Send("enter_bootloader", CMD_ENTER, <<>>, 0)
    /\ pc' = AfterSend(<<>>, "parse")
    /\ UNCHANGED <<identity, image, row_i, chunk_i, calls, codec>>

\* firmware = Cyacd(open(...)); firmware.parse()
MainParse ==
    /\ pc = "parse"
    /\ ~waiting
    /\ LET p == Cyacd_parse(file)
       IN  /\ silicon_id' = p.silicon_id
           /\ silicon_revision' = p.silicon_revision
           /\ checksum_type' = p.checksum_type
           /\ firmware' = p.firmware
           /\ exc' = p.exc
           /\ pc' = IF p.exc = "none" THEN "compare" ELSE "raised"
    /\ op' = "parse"
    /\ ret' = "None"
    /\ UNCHANGED <<waiting, response, io, identity, file, row_i, chunk_i,
                   calls, codec>>

\* The if of line 242: flash is entered, or skipped.
MainCompare ==
    /\ pc = "compare"
    /\ IF Compatible
       THEN pc' = "flash" /\ row_i' = 1 /\ chunk_i' = 0
       ELSE pc' = "exit" /\ UNCHANGED <<row_i, chunk_i>>
    /\ UNCHANGED <<op, waiting, ret, exc, response, io, identity, image,
                   calls, codec>>

\* A flash that gives up at the first command that returned False, as a
\* loop testing the return values of lines 170 to 175 would.
FlashCommand_StopOnFalse ==
    /\ pc = "flash"
    /\ ~waiting
    /\ row_i <= Len(firmware[1])
    /\ IF ret = "False"
       THEN /\ pc' = "exit"
            /\ UNCHANGED <<op, waiting, ret, exc, response, io, row_i, chunk_i>>
       ELSE LET cmds == RowCommands(firmware[1][row_i])
                c == cmds[chunk_i + 1]
            IN  /\ Send(c.method, c.command, c.data, row_i)
                /\ pc' = AfterSend(c.data, "flash")
                /\ IF chunk_i + 1 < Len(cmds)
                   THEN row_i' = row_i /\ chunk_i' = chunk_i + 1
                   ELSE row_i' = row_i + 1 /\ chunk_i' = 0
    /\ UNCHANGED <<identity, image, calls, codec>>

\* flash: the next send_data or program_row of the for loop, up to its read.
FlashCommand ==
    /\ pc = "flash"
    /\ ~waiting
    /\ row_i <= Len(firmware[1])
    /\ LET cmds == RowCommands(firmware[1][row_i])
           c == cmds[chunk_i + 1]
       IN  /\ Send(c.method, c.command, c.data, row_i)
           /\ pc' = AfterSend(c.data, "flash")
           /\ IF chunk_i + 1 < Len(cmds)
              THEN row_i' = row_i /\ chunk_i' = chunk_i + 1
              ELSE row_i' = row_i + 1 /\ chunk_i' = 0
    /\ UNCHANGED <<identity, image, calls, codec>>

\* flash: the for loop is over and flash returns.
FlashReturn ==
    /\ pc = "flash"
    /\ ~waiting
    /\ row_i > Len(firmware[1])
    /\ pc' = "exit"
    /\ UNCHANGED <<op, waiting, ret, exc, response, io, identity, image,
                   row_i, chunk_i, calls, codec>>

\* bootloader.exit_bootloader(), after which main() returns.
MainExit ==
    /\ pc = "exit"
    /\ ~waiting
    /\ Send("exit_bootloader", CMD_EXIT, <<>>, 0)
    /\ pc' = AfterSend(<<>>, "done")
    /\ UNCHANGED <<identity, image, row_i, chunk_i, calls, codec>>

Next ==
    \/ MainFound
    \/ MainNotFound
    \/ MainEnter
    \/ Receive
    \/ MainParse
    \/ MainCompare
    \/ FlashCommand
    \/ FlashReturn
    \/ MainExit

Spec == Init /\ [][Next]_vars

-----------------------------------------------------------------------------
(* SpecSession: a client holding a Bootloader calls its methods in any     *)
(* order; an exception of a call is caught by the client, which goes on.   *)

\* Payloads the client passes to send_data and program_row: a short one and
\* one that, with program_row's three argument bytes, passes the packet's
\* payload limit.
ClientPayloads ==
    { <<17, 34>>,
      [i \in 1..(PACKET_SIZE - FRAME_OVERHEAD - 2) |-> i] }

\* (array_id, row_number) pairs the client passes.
ClientRows == { <<1, 258>> }

InitSession ==
    /\ pc = "client"
    /\ file = <<>>
    /\ NoCall
    /\ Constructed
    /\ NoCodec

ClientMayCall == pc = "client" /\ ~waiting /\ calls < MaxCalls

CallEnter ==
    /\ ClientMayCall
    /\ Send("enter_bootloader", CMD_ENTER, <<>>, 0)
    /\ calls' = calls + 1
    /\ UNCHANGED <<pc, identity, image, row_i, chunk_i, codec>>

CallEraseRow ==
    /\ ClientMayCall
    /\ \E a \in ClientRows :
         Send("erase_row", CMD_ERASE_ROW, RowArguments(a[1], a[2]), 0)
    /\ calls' = calls + 1
    /\ UNCHANGED <<pc, identity, image, row_i, chunk_i, codec>>

CallSendData ==
    /\ ClientMayCall
    /\ \E d \in ClientPayloads : Send("send_data", CMD_SEND_DATA, d, 0)
    /\ calls' = calls + 1
    /\ UNCHANGED <<pc, identity, image, row_i, chunk_i, codec>>

CallProgramRow ==
    /\ ClientMayCall
    /\ \E a \in ClientRows, d \in ClientPayloads :
         Send("program_row", CMD_PROGRAM_ROW, RowArguments(a[1], a[2]) \o d, 0)
    /\ calls' = calls + 1
    /\ UNCHANGED <<pc, identity, image, row_i, chunk_i, codec>>

CallExit ==
    /\ ClientMayCall
    /\ Send("exit_bootloader", CMD_EXIT, <<>>, 0)
    /\ calls' = calls + 1
    /\ UNCHANGED <<pc, identity, image, row_i, chunk_i, codec>>

NextSession ==
    \/ CallEnter
    \/ CallEraseRow
    \/ CallSendData
    \/ CallProgramRow
    \/ CallExit
    \/ Receive

SpecSession == InitSession /\ [][NextSession]_vars

-----------------------------------------------------------------------------
(* SpecCodec: _make_packet on a command byte and a payload, then           *)
(* _parse_response on the packet it built.                                 *)

\* The five commands of the protocol, two bytes that are also status codes
\* and the largest byte.
CodecCommands ==
    {CMD_ERASE_ROW, CMD_SEND_DATA, CMD_ENTER, CMD_PROGRAM_ROW, CMD_EXIT, 0, 15, 255}

\* Payloads of every length the assertion of _make_packet admits and of the
\* first it refuses: all zero, all 255, and bytes that differ by position.
CodecPayloads ==
    {[i \in 1..n |-> b] : n \in 0..(PACKET_SIZE - FRAME_OVERHEAD + 1), b \in {0, 255}}
    \cup {[i \in 1..n |-> (3 * i) % 256] : n \in 0..(PACKET_SIZE - FRAME_OVERHEAD + 1)}

\* Byte sequences for _checksum alone whose sums reach and pass 16 bits:
\* 65535, 65536, 65790 and 131070.
WrapPayloads ==
    { [i \in 1..257 |-> 255],
      [i \in 1..258 |-> IF i = 258 THEN 1 ELSE 255],
      [i \in 1..258 |-> 255],
      [i \in 1..514 |-> 255] }

InitCodec ==
    /\ pc = "codec"
    /\ file = <<>>
    /\ NoCall
    /\ Constructed
    /\ codec_stage = "input"
    /\ codec_cmd \in CodecCommands
    /\ codec_data \in CodecPayloads \cup WrapPayloads
    /\ codec_packet = <<>>
    /\ codec_resp = None

CodecEncode ==
    /\ codec_stage = "input"
    /\ IF MakePacketAsserts(codec_data)
       THEN /\ codec_packet' = _make_packet(codec_cmd, codec_data)
            /\ codec_stage' = "encoded"
       ELSE /\ codec_packet' = codec_packet
            /\ codec_stage' = "raised"
    /\ UNCHANGED <<pc, op, waiting, ret, exc, response, io, identity, image,
                   row_i, chunk_i, calls, codec_cmd, codec_data, codec_resp>>

CodecDecode ==
    /\ codec_stage = "encoded"
    /\ codec_resp' = Some(_parse_response(codec_packet))
    /\ codec_stage' = "decoded"
    /\ UNCHANGED <<pc, op, waiting, ret, exc, response, io, identity, image,
                   row_i, chunk_i, calls, codec_cmd, codec_data, codec_packet>>

\* Bootloader._checksum on the bytes themselves.
CodecChecksum ==
    /\ codec_stage = "input"
    /\ codec_resp' = Some(Bootloader_checksum(codec_data))
    /\ codec_stage' = "summed"
    /\ UNCHANGED <<pc, op, waiting, ret, exc, response, io, identity, image,
                   row_i, chunk_i, calls, codec_cmd, codec_data, codec_packet>>

NextCodec == CodecEncode \/ CodecDecode \/ CodecChecksum

SpecCodec == InitCodec /\ [][NextCodec]_vars

-----------------------------------------------------------------------------
(* Reading the transport log and the raw responses.                        *)

\* The log entry is a write of a frame with this command byte.
IsWrite(e, command) == e.kind = "write" /\ e.frame[2] = command

\* The length field and the payload of a frame, read from its bytes.
FrameLength(f) == f[3] + 256 * f[4]

FramePayload(f) == SubSeq(f, 5, 4 + FrameLength(f))

\* The indices of the log at which a command of flash row k was written.
RowWrites(k) == {i \in 1..Len(io) : io[i].kind = "write" /\ io[i].row = k}

\* The indices of the log at which a send_data or program_row was written.
FlashWrites ==
    {i \in 1..Len(io) : IsWrite(io[i], CMD_SEND_DATA) \/ IsWrite(io[i], CMD_PROGRAM_ROW)}

\* A response with start and end marker in place around its declared length.
WellFramed(r) ==
    /\ Len(r) >= 7
    /\ Len(r) >= 7 + FrameLength(r)
    /\ r[1] = 1
    /\ r[7 + FrameLength(r)] = 23

\* The two checksum bytes of a well-framed response are the 16-bit
\* two's-complement negation of the sum of the bytes before them.
RawChecksumOk(r) ==
    (r[5 + FrameLength(r)] + 256 * r[6 + FrameLength(r)]
        + SumBytes(SubSeq(r, 1, 4 + FrameLength(r)))) % 65536 = 0

\* The rows flash has been given, none before a successful parse.
Rows == IF firmware = None THEN <<>> ELSE firmware[1]

\* The program_row frames written so far, in the order of their writes.
ProgramRowLog == SelectSeq(io, LAMBDA e : IsWrite(e, CMD_PROGRAM_ROW))

\* The row data carried by the first i entries of the log for flash row k:
\* the payloads of its send_data frames and the payload of its program_row
\* frame after the three argument bytes, in the order of the writes.
RECURSIVE RowDataWritten(_, _)
RowDataWritten(k, i) ==
    IF i = 0 THEN <<>>
    ELSE RowDataWritten(k, i - 1)
         \o (IF i \notin RowWrites(k) THEN <<>>
             ELSE IF IsWrite(io[i], CMD_SEND_DATA) THEN FramePayload(io[i].frame)
             ELSE SubSeq(FramePayload(io[i].frame), 4, FrameLength(io[i].frame)))

-----------------------------------------------------------------------------
(* SpecAnswering: a run of main() against a device that answers every      *)
(* command, each time with a well-framed response whose status is known.   *)

\* _device.read(64) returns a well-framed response with a status of STATUSES.
ReceiveAnswer ==
    /\ Receive
    /\ WellFramed(response')
    /\ response'[2] \in DOMAIN STATUSES

NextAnswering ==
    \/ MainFound
    \/ MainNotFound
    \/ MainEnter
    \/ ReceiveAnswer
    \/ MainParse
    \/ MainCompare
    \/ FlashCommand
    \/ FlashReturn
    \/ MainExit

\* The steps of FlashCommand and of ReceiveAnswer as they show in waiting,
\* the caller's being blocked in _device.read(64): among the steps of
\* NextAnswering, the one that blocks the caller from a flash loop with a
\* command left is FlashCommand's and the one that unblocks it is
\* ReceiveAnswer's.
FlashCommandBlocks ==
    /\ pc = "flash"
    /\ ~waiting
    /\ row_i <= Len(Rows)
    /\ waiting' = TRUE

ReadReturns ==
    /\ waiting
    /\ waiting' = FALSE

\* flash is a loop of one thread, which writes its next command or returns
\* whenever that is its next step, and every read it blocks in returns.
SpecAnswering ==
    /\ Init
    /\ [][NextAnswering]_vars
    /\ WF_waiting(FlashCommandBlocks)
    /\ WF_vars(FlashReturn)
    /\ WF_waiting(ReadReturns)

-----------------------------------------------------------------------------
(* The claims.                                                             *)

\* C1: after the exit frame (0x3b) has been written, no frame of
\* enter_bootloader, erase_row, send_data or program_row is written and no
\* response is read: no such entry follows an exit frame in the log.
\* (Stated as claimed; the code keeps no record of the exit.)
C1_NoIoAfterExit ==
    \A i \in 1..Len(io), j \in 1..Len(io) :
        (i < j /\ IsWrite(io[i], CMD_EXIT)) =>
            /\ io[j].kind # "read"
            /\ ~IsWrite(io[j], CMD_ENTER)
            /\ ~IsWrite(io[j], CMD_ERASE_ROW)
            /\ ~IsWrite(io[j], CMD_SEND_DATA)
            /\ ~IsWrite(io[j], CMD_PROGRAM_ROW)

\* C2: of the commands flash writes for a row, each is a send_data (0x37)
\* or a program_row (0x39), no command of the row is written after its
\* program_row (so there is at most one, and it is the last), the
\* program_row carries the row's array id and row number, and every row the
\* loop has passed has had its program_row written, whatever its length.
C2_ProgramRowOnceAndLast ==
    \A k \in 1..Len(Rows) :
        /\ \A i \in RowWrites(k) :
              \/ IsWrite(io[i], CMD_SEND_DATA)
              \/ /\ IsWrite(io[i], CMD_PROGRAM_ROW)
                 /\ SubSeq(io[i].frame, 5, 7)
                      = <<Rows[k][1], Rows[k][2] % 256, Rows[k][2] \div 256>>
        /\ \A i \in RowWrites(k), j \in RowWrites(k) :
              IsWrite(io[i], CMD_PROGRAM_ROW) => j <= i
        /\ k < row_i => \E i \in RowWrites(k) : IsWrite(io[i], CMD_PROGRAM_ROW)

\* C2's case: main() has finished after flashing a row of 96 bytes (a
\* multiple of 48) and a row of no bytes.
C2_Witness ==
    /\ pc = "done"
    /\ \E k \in 1..Len(Rows) : Len(Rows[k][3]) = 96 /\ RowWrites(k) # {}
    /\ \E k \in 1..Len(Rows) : Len(Rows[k][3]) = 0 /\ RowWrites(k) # {}

\* C3: MAX_DATA_LENGTH is 48, and for a row of L data bytes that the loop
\* has passed the log holds 0 send_data frames if L < 48, L div 48 if
\* L mod 48 > 0, (L div 48) - 1 if L mod 48 = 0; every send_data frame
\* carries 48 bytes; the program_row frame carries, after its 3 argument
\* bytes, L bytes if L < 48, L mod 48 bytes if L mod 48 > 0 and 48 bytes if
\* L mod 48 = 0.
C3_ChunkCounts ==
    /\ MAX_DATA_LENGTH = 48
    /\ \A k \in 1..Len(Rows) :
        k < row_i =>
          LET L == Len(Rows[k][3])
              sends == {i \in RowWrites(k) : IsWrite(io[i], CMD_SEND_DATA)}
              progs == {i \in RowWrites(k) : IsWrite(io[i], CMD_PROGRAM_ROW)}
          IN  /\ Cardinality(sends) =
                    IF L < 48 THEN 0
                    ELSE IF L % 48 > 0 THEN L \div 48 ELSE (L \div 48) - 1
              /\ \A i \in sends : FrameLength(io[i].frame) = 48
              /\ \A i \in progs :
                    FrameLength(io[i].frame) - 3 =
                        IF L < 48 THEN L ELSE IF L % 48 > 0 THEN L % 48 ELSE 48

\* C3's case: main() has finished without an exception after flashing a
\* row of 100 bytes and a row of 48 bytes.
C3_Witness ==
    /\ pc = "done"
    /\ exc = "none"
    /\ \E k \in 1..Len(Rows) : Len(Rows[k][3]) = 100 /\ k < row_i
    /\ \E k \in 1..Len(Rows) : Len(Rows[k][3]) = 48 /\ k < row_i

\* C4: when Cyacd.parse has failed on the checksum of a line (its
\* assertion), nothing has been written to the device or read from it.
\* (Stated as claimed; main() enters the bootloader before it parses.)
C4_ParseFailureBeforeIo ==
    (op = "parse" /\ exc = "AssertionError") => io = <<>>

\* C5: a method that has read a well-framed response whose status byte is
\* not a key of STATUSES has returned False and raised nothing.
\* (Stated as claimed; the lookup STATUSES[...] raises KeyError.)
C5_UnknownStatusClassified ==
    (/\ ~waiting
     /\ response # <<>>
     /\ WellFramed(response)
     /\ response[2] \notin DOMAIN STATUSES)
        => (exc = "none" /\ ret = "False")

\* C6: once the three identity fields are set, no step changes them.
\* (Stated as claimed; a second successful enter_bootloader assigns again.)
C6_IdentityWriteOnce ==
    [][(jtag_id # None /\ device_revision # None /\ bootloader_revision # None)
          => identity' = identity]_vars

\* C7: an enter_bootloader that returns on a response whose checksum is
\* wrong or whose status byte is not success returns False and leaves the
\* three identity fields as they were; and a step that changes an identity
\* field is the return of enter_bootloader, never a step of erase_row,
\* send_data, program_row or exit_bootloader.
C7_FailedEnterKeepsIdentity ==
    [][/\ (/\ op = "enter_bootloader"
           /\ waiting
           /\ ~waiting'
           /\ exc' = "none"
           /\ ~(RawChecksumOk(response') /\ response'[2] = 0))
          => (ret' = "False" /\ identity' = identity)
       /\ identity' # identity
          => (op = "enter_bootloader" /\ op' = "enter_bootloader" /\ waiting)
      ]_vars

\* C7's case: after a successful enter_bootloader, another one has read a
\* response with success status and a wrong checksum and returned False.
C7_Witness ==
    /\ op = "enter_bootloader"
    /\ ~waiting
    /\ ret = "False"
    /\ response # <<>>
    /\ response[2] = 0
    /\ jtag_id # None
    /\ device_revision # None

\* C8: a send_data or program_row frame is in the log only if jtag_id is
\* set and equals silicon_id and device_revision equals silicon_revision;
\* when the parsed image does not match, main() is at the comparison, at
\* exit_bootloader or done, with no exception and no such frame; and when
\* it is done the last entry of the log is the exit frame.
C8_FlashOnlyIfCompatible ==
    /\ FlashWrites # {} =>
          /\ jtag_id # None
          /\ jtag_id = silicon_id
          /\ device_revision = silicon_revision
    /\ (firmware # None
        /\ ~(jtag_id = silicon_id /\ device_revision = silicon_revision)) =>
          /\ pc \in {"compare", "exit", "done"}
          /\ exc = "none"
          /\ FlashWrites = {}
          /\ pc = "done" => IsWrite(io[Len(io)], CMD_EXIT)

\* C8's case: main() is done for an image with the device's silicon id and
\* another silicon revision.
C8_Witness ==
    /\ pc = "done"
    /\ firmware # None
    /\ jtag_id # None
    /\ jtag_id = silicon_id
    /\ device_revision # silicon_revision

\* C9: _parse_response on the packet _make_packet built for a command byte
\* and a payload of 0..57 bytes raises nothing, returns the payload as data
\* and reports checksum_ok.
\* (Stated as claimed; the command byte is looked up in STATUSES.)
C9_PacketRoundTrip ==
    codec_stage = "decoded" =>
        /\ codec_resp[1].exc = "none"
        /\ codec_resp[1].data = codec_data
        /\ codec_resp[1].checksum_ok

\* C10: erase_row, send_data and program_row, having read a response,
\* return True exactly if its checksum bytes are right and its status byte
\* is 0 (success), and False otherwise; a well-framed response with a
\* status of the table raises nothing, whatever its checksum.
C10_TrueIffChecksumAndSuccess ==
    (op \in {"erase_row", "send_data", "program_row"}
     /\ ~waiting /\ response # <<>>) =>
        /\ exc = "none" =>
              /\ ret \in {"True", "False"}
              /\ ret = "True" <=> (RawChecksumOk(response) /\ response[2] = 0)
        /\ (WellFramed(response) /\ response[2] \in DOMAIN STATUSES)
              => exc = "none"

\* C10's case: program_row has returned False on a response with success
\* status and a wrong checksum.
C10_Witness ==
    /\ op = "program_row"
    /\ ~waiting
    /\ exc = "none"
    /\ response # <<>>
    /\ response[2] = 0
    /\ ret = "False"

\* C11: flash goes on whatever its commands return.  The commands of a row
\* are all written before any command of the next row; the program_row
\* frames written carry, in order, the array id and row number of the rows
\* of the image; a False result is followed by the write of the next command
\* and by nothing else; and once flash has returned, every row of the image
\* has had its program_row frame.
C11_FlashInFileOrder ==
    /\ [](/\ \A i, j \in FlashWrites : i < j => io[i].row <= io[j].row
          /\ Len(ProgramRowLog) <= Len(Rows)
          /\ \A k \in 1..Len(ProgramRowLog) :
                SubSeq(ProgramRowLog[k].frame, 5, 7)
                    = <<Rows[k][1], Rows[k][2] % 256, Rows[k][2] \div 256>>
          /\ (pc \in {"exit", "done"} /\ FlashWrites # {})
                => Len(ProgramRowLog) = Len(Rows))
    /\ [][(pc = "flash" /\ ~waiting /\ ret = "False" /\ row_i <= Len(Rows))
            => /\ pc' = "flash"
               /\ Len(io') = Len(io) + 1
               /\ io'[Len(io')].kind = "write"
               /\ io'[Len(io')].row = row_i]_vars

\* The program_row of the first of two rows returned False and the loop
\* stands before the second row.
C11_Witness ==
    /\ pc = "flash"
    /\ ~waiting
    /\ op = "program_row"
    /\ ret = "False"
    /\ Len(Rows) = 2
    /\ row_i = 2
    /\ chunk_i = 0

\* C12: parse produces a firmware image only from a file in which every row
\* line ends with the byte that is the 8-bit two's-complement negation of
\* the sum of all its other bytes, and declares as its data length the
\* number of data bytes it holds.
C12_AcceptedLinesHaveTrailingChecksum ==
    firmware # None =>
        \A k \in 2..Len(file) :
            LET line == a2b_hex(RStrip(Tail(file[k])))
                others == SubSeq(line, 1, Len(line) - 1)
            IN  /\ (line[Len(line)] + SumBytes(others)) % 256 = 0
                /\ line[4] * 256 + line[5] = Len(line) - 6

\* C13: the value _checksum returns for a byte sequence lies in 0..65535 and
\* added to the sum of the bytes gives 0 modulo 65536; in a packet built by
\* _make_packet the two bytes after the payload are that value for the bytes
\* before them, low byte first; and _parse_response, where it returns,
\* reports the checksum of such a packet as good.
C13_ChecksumNegatesSum ==
    /\ codec_stage = "summed" =>
          /\ codec_resp[1] \in 0..65535
          /\ (SumBytes(codec_data) + codec_resp[1]) % 65536 = 0
    /\ codec_stage \in {"encoded", "decoded"} =>
          LET n == Len(codec_data)
              low == codec_packet[5 + n]
              high == codec_packet[6 + n]
          IN  /\ low \in 0..255
              /\ high \in 0..255
              /\ (SumBytes(SubSeq(codec_packet, 1, 4 + n)) + low + 256 * high)
                    % 65536 = 0
    /\ (codec_stage = "decoded" /\ codec_resp[1].exc = "none") =>
          codec_resp[1].checksum_ok

\* _checksum has been applied to bytes whose sum does not fit 16 bits.
C13_Witness ==
    /\ codec_stage = "summed"
    /\ SumBytes(codec_data) > 65536
    /\ codec_resp[1] > 0

\* C14: when enter_bootloader has read a well-framed response with success
\* status, good checksum and a payload p of at least 8 bytes, it has returned
\* True with jtag_id = p[0] + p[1]*2^8 + p[2]*2^16 + p[3]*2^24,
\* device_revision = p[4] and bootloader_revision = [p[7], p[6], p[5]];
\* for p = 01 02 03 04 05 06 07 08 these are 0x04030201, 0x05 and [8, 7, 6].
C14_EnterDecodesIdentity ==
    (/\ op = "enter_bootloader"
     /\ ~waiting
     /\ response # <<>>
     /\ WellFramed(response)
     /\ response[2] = 0
     /\ RawChecksumOk(response)
     /\ FrameLength(response) >= 8)
    => LET p == FramePayload(response)
       IN  /\ ret = "True"
           /\ exc = "none"
           /\ jtag_id = <<p[1] + p[2] * 256 + p[3] * 65536 + p[4] * 16777216>>
           /\ device_revision = <<p[5]>>
           /\ bootloader_revision = << <<p[8], p[7], p[6]>> >>
           /\ SubSeq(p, 1, 8) = <<1, 2, 3, 4, 5, 6, 7, 8>>
                => /\ jtag_id = <<67305985>>
                   /\ device_revision = <<5>>
                   /\ bootloader_revision = << <<8, 7, 6>> >>

\* enter_bootloader has returned True on a payload of more than 8 bytes
\* that begins 01 02 03 04 05 06 07 08.
C14_Witness ==
    /\ op = "enter_bootloader"
    /\ ~waiting
    /\ ret = "True"
    /\ response # <<>>
    /\ FrameLength(response) > 8
    /\ jtag_id = <<67305985>>
    /\ bootloader_revision = << <<8, 7, 6>> >>

\* C15: the row data written for a row is at every moment a leading part of
\* the row's data, and once the row's program_row frame is written it is the
\* row's data, byte for byte: nothing dropped, nothing sent twice.
C15_ChunksConcatenateToRow ==
    \A k \in 1..Len(Rows) :
        LET written == RowDataWritten(k, Len(io))
        IN  /\ Len(written) <= Len(Rows[k][3])
            /\ written = SubSeq(Rows[k][3], 1, Len(written))
            /\ (\E i \in RowWrites(k) : IsWrite(io[i], CMD_PROGRAM_ROW))
                  => written = Rows[k][3]

\* Two rows are written out, one in a single program_row and one in two
\* send_data and a program_row.
C15_Witness ==
    /\ Len(Rows) = 2
    /\ Len(ProgramRowLog) = 2
    /\ \E k \in 1..2 : Cardinality(RowWrites(k)) = 3 /\ Len(Rows[k][3]) > 2 * MAX_DATA_LENGTH
    /\ \E k \in 1..2 : Cardinality(RowWrites(k)) = 1

\* C16: in the transport log every write of a frame other than the exit
\* frame is either the last entry, with the caller blocked in its read, or
\* followed at once by a read; every read follows at once such a write; the
\* caller is blocked exactly when the last entry is such a write; and an
\* exit frame is the 0x3b frame with no payload and no read follows it.
C16_HalfDuplex ==
    /\ \A i \in 1..Len(io) :
          /\ (io[i].kind = "write" /\ io[i].frame[2] # CMD_EXIT)
                => IF i = Len(io) THEN waiting ELSE io[i + 1].kind = "read"
          /\ io[i].kind = "read"
                => /\ i > 1
                   /\ io[i - 1].kind = "write"
                   /\ io[i - 1].frame[2] # CMD_EXIT
          /\ IsWrite(io[i], CMD_EXIT)
                => /\ io[i].frame = <<1, 59, 0, 0, 196, 255, 23>>
                   /\ i < Len(io) => io[i + 1].kind = "write"
    /\ waiting => (io # <<>> /\ io[Len(io)].kind = "write"
                             /\ io[Len(io)].frame[2] # CMD_EXIT)

\* An exit frame written between two exchanges of write and read.
C16_Witness ==
    \E i \in 3..(Len(io) - 2) :
        /\ IsWrite(io[i], CMD_EXIT)
        /\ io[i - 1].kind = "read"
        /\ io[i + 1].kind = "write"
        /\ io[i + 2].kind = "read"

\* C17: every send_data frame flash has written carries at most 48 payload
\* bytes and every program_row frame at most 51, each frame is at most 64
\* bytes long, and no flash command has ended on the assertion of
\* _make_packet (an AssertionError with nothing written and nothing read).
C17_FlashFramesFit ==
    /\ \A i \in FlashWrites :
          /\ IsWrite(io[i], CMD_SEND_DATA) => FrameLength(io[i].frame) <= 48
          /\ IsWrite(io[i], CMD_PROGRAM_ROW) => FrameLength(io[i].frame) <= 51
          /\ Len(io[i].frame) = 7 + FrameLength(io[i].frame)
          /\ Len(io[i].frame) <= 64
    /\ (op \in {"send_data", "program_row"} /\ exc = "AssertionError")
          => response # <<>>

\* flash has written a send_data frame of 48 payload bytes and a
\* program_row frame of 51.
C17_Witness ==
    /\ pc = "flash"
    /\ \E i \in FlashWrites :
          IsWrite(io[i], CMD_SEND_DATA) /\ FrameLength(io[i].frame) = 48
    /\ \E i \in FlashWrites :
          IsWrite(io[i], CMD_PROGRAM_ROW) /\ FrameLength(io[i].frame) = 51

\* C18: against a device that answers every read with a well-framed response
\* of known status, a flash that has begun returns; when it has returned,
\* the send_data and program_row frames written number the sum over the rows
\* of max(1, ceil(L / 48)) for a row of L data bytes; and while a read has
\* not returned, the only thing that happens to the transport is that read
\* returning: no command is written.
C18_FlashTerminates ==
    /\ (pc = "flash") ~> (pc = "exit")
    /\ []((pc \in {"exit", "done"} /\ Compatible)
            => LET count[k \in 0..Len(Rows)] ==
                      IF k = 0 THEN 0
                      ELSE count[k - 1]
                           + (IF Len(Rows[k][3]) <= 48 THEN 1
                              ELSE (Len(Rows[k][3]) + 47) \div 48)
               IN  Cardinality(FlashWrites) = count[Len(Rows)])
    /\ [][waiting => \/ io' = io
                     \/ /\ Len(io') = Len(io) + 1
                        /\ io'[Len(io')].kind = "read"]_vars

\* flash has returned from an image of two rows, one of 100 bytes sent in
\* three commands and one of 96 bytes sent in two.
C18_Witness ==
    /\ pc = "exit"
    /\ Compatible
    /\ Len(Rows) = 2
    /\ {Len(Rows[1][3]), Len(Rows[2][3])} = {2 * MAX_DATA_LENGTH, 2 * MAX_DATA_LENGTH + 4}
    /\ Cardinality(FlashWrites) = 5

\* C19: in a run of main, a send_data or program_row frame has been written
\* only if enter_bootloader succeeded: the three identity fields are set.
\* When enter_bootloader has returned False they are all unset, and a parsed
\* image's silicon id and revision are never unset, so the test of line 242
\* fails.
C19_ProgramOnlyAfterEnter ==
    /\ FlashWrites # {}
          => jtag_id # None /\ device_revision # None /\ bootloader_revision # None
    /\ (op = "enter_bootloader" /\ ~waiting /\ response # <<>> /\ ret = "False")
          => jtag_id = None /\ device_revision = None /\ bootloader_revision = None
    /\ firmware # None
          => /\ silicon_id # None /\ silicon_revision # None
             /\ jtag_id = None => jtag_id # silicon_id
             /\ device_revision = None => device_revision # silicon_revision

\* main has ended after an enter_bootloader that did not succeed and a parse
\* that gave an image with rows; nothing was programmed.
C19_Witness ==
    /\ pc = "done"
    /\ jtag_id = None
    /\ Len(Rows) > 0
    /\ FlashWrites = {}

\* C20: when a run of main that found the device has ended, by returning or
\* by the exception of a firmware that does not parse, the exit frame (0x3b)
\* has been written exactly once and is the last entry of the transport log.
\* (Runs ended by an exception out of a device response are left aside here:
\* they are the matter of C5.)
C20_ExitFrameAlwaysLast ==
    (pc = "done" \/ (pc = "raised" /\ op = "parse"))
    => /\ io # <<>>
       /\ IsWrite(io[Len(io)], CMD_EXIT)
       /\ Cardinality({i \in 1..Len(io) : IsWrite(io[i], CMD_EXIT)}) = 1

=============================================================================
